---- MODULE Spec2Model ----
(***************************************************************************)
(* Model of deepops/tensor.py: the Tensor residency state machine and the  *)
(* device-memory / kernel-dispatch core (GPUConnectMixin + Tensor).        *)
(*                                                                         *)
(* The Python heap is modelled by three append-only collections:           *)
(*   host    - the numpy arrays (values, shape, dtype)                     *)
(*   dev     - the pycuda DeviceAllocations (values, shape, dtype, nbytes, *)
(*             and, as history, the driver call that wrote the values)     *)
(*   tensors - the Tensor objects; a Tensor's _data is a reference into    *)
(*             host or dev, so two Tensors can share one buffer            *)
(* last records the call the caller has just made: its arguments, the      *)
(* Tensor objects as they were before it, the driver calls it issued, what *)
(* it raised and what it returned.  The program is single-threaded: the    *)
(* caller makes one call, looks at its outcome (Resume) and makes the next.*)
(***************************************************************************)
EXTENDS Integers, Sequences, FiniteSets, TLC

VARIABLES tensors, host, dev, last

vars == <<tensors, host, dev, last>>

(* ------------------------------ bounds --------------------------------- *)

\* Largest extent of one dimension of a constructed tensor.
MaxDim == 2

\* Element values of constructed tensors are drawn from 0..MaxVal.
MaxVal == 1

\* Number of Tensor objects a run may create by construction and detach().
MaxInputs == 2

\* Number of Tensor objects a run may create in all; the ones past MaxInputs
\* are results of cpu() and of device arithmetic.
MaxTensors == 3
\* The largest element count the launch geometry is computed for.
MaxCount == 768

(* ------------------------- program constants --------------------------- *)

\* Tensor.BLOCKSIZE
BLOCKSIZE == 256

\* bytes per float32 element in _alloc_device_memory
FLOAT32_BYTES == 4

(* ------------------------------ values --------------------------------- *)

Vals == 0..MaxVal

\* Shapes of constructed tensors: a vector, a row (the linear 2-D layout of
\* the tests) and a square matrix (two dimensions above 1).
Shapes == {<<MaxDim>>, <<1, MaxDim>>, <<MaxDim, MaxDim>>}

DTypes == {"float32", "int32"}

\* Strings are sequences of characters, so that startswith can be computed.
STR_cpu == <<"c", "p", "u">>
STR_gpu == <<"g", "p", "u">>
STR_cpu0 == <<"c", "p", "u", ":", "0">>
STR_gpu1 == <<"g", "p", "u", ":", "1">>
STR_tpu == <<"t", "p", "u">>

\* Device names a caller passes to device().
Names == {STR_gpu, STR_gpu1, STR_tpu}

\* str.startswith
StartsWith(s, prefix) ==
    /\ Len(s) >= Len(prefix)
    /\ SubSeq(s, 1, Len(prefix)) = prefix

\* np.prod(shape)
RECURSIVE Prod(_)
Prod(shape) == IF shape = <<>> THEN 1 ELSE Head(shape) * Prod(Tail(shape))

\* max(shape)
RECURSIVE MaxOf(_)
MaxOf(shape) ==
    IF Len(shape) = 1 THEN Head(shape)
    ELSE LET m == MaxOf(Tail(shape)) IN IF Head(shape) > m THEN Head(shape) ELSE m

\* The contents of a constructed array: a ramp starting at seed, so that
\* different positions hold different values.
Ramp(seed, n) == [i \in 1..n |-> (seed + i - 1) % (MaxVal + 1)]

\* Memory the program has not written: every cell reads as the same
\* arbitrary value g.
Garbage(g, n) == [i \in 1..n |-> g]

(* --------------------------- object references ------------------------- *)

HostRef(i) == [kind |-> "host", id |-> i]
DevRef(i) == [kind |-> "dev", id |-> i]
NoRef == [kind |-> "none", id |-> 0]

\* The object behind a data reference.
Object(ref) == IF ref.kind = "host" THEN host[ref.id] ELSE dev[ref.id]

(* ------------------------- the record of a call ------------------------ *)

\* One call into the CUDA driver (a kernel launch included).
DriverCall(fn) ==
    [fn |-> fn, nbytes |-> 0, op |-> "", ret |-> NoRef, lhs |-> NoRef,
     rhs |-> NoRef, n |-> 0, grid |-> 0, block |-> 0]

NoReturn ==
    [kind |-> "none", id |-> 0, vals |-> <<>>, shape |-> <<>>, dtype |-> "",
     text |-> <<>>]
ReturnTensor(i) == [NoReturn EXCEPT !.kind = "Tensor", !.id = i]
ReturnStr(text) == [NoReturn EXCEPT !.kind = "str", !.text = text]
ReturnArray(vals, shape, dtype) ==
    [NoReturn EXCEPT !.kind = "ndarray", !.vals = vals, !.shape = shape, !.dtype = dtype]

NoCall ==
    [op |-> "none", self |-> 0, other |-> 0, name |-> <<>>, err |-> "none",
     ret |-> NoReturn, calls |-> <<>>, pre |-> <<>>]

Call(op, self, other, name, err, ret, calls) ==
    [op |-> op, self |-> self, other |-> other, name |-> name, err |-> err,
     ret |-> ret, calls |-> calls, pre |-> tensors]

\* The caller is between two calls.
Idle == last.op = "none"

\* The caller has looked at the outcome of its call and goes on.
Resume ==
    /\ ~Idle
    /\ last' = NoCall
    /\ UNCHANGED <<tensors, host, dev>>

(* ------------------------------ Tensor --------------------------------- *)

\* Tensor.__init__ on a numpy array or a DeviceAllocation obj, referenced
\* by ref: the fields of the new object.
TensorOf(ref, obj) ==
    [state |-> IF ref.kind = "dev" THEN "DEVICE" ELSE "HOST",
     data |-> ref,
     dtype |-> obj.dtype,
     shape |-> obj.shape,
     gpu |-> FALSE,
     device_name |-> STR_cpu0]

\* GPUConnectMixin._alloc_device_memory: the new DeviceAllocation, its
\* memory unwritten (written_by is history: no call has written it).
AllocDeviceMemory(shape, g) ==
    [vals |-> Garbage(g, Prod(shape)),
     nbytes |-> Prod(shape) * FLOAT32_BYTES,
     shape |-> shape,
     dtype |-> "float32",
     written_by |-> DriverCall("none")]

\* Tensor(list, dtype): np.array(data, dtype or float32), then the fields.
\* The tensors of one run are given one shape: the only operation that
\* relates two tensors is arithmetic, and it is exercised on operands of the
\* same shape.
Construct ==
    /\ Idle
    /\ Len(tensors) < MaxInputs
    /\ \E shape \in Shapes, seed \in Vals, dtype \in DTypes :
         /\ tensors # <<>> => shape = tensors[1].shape
         /\ LET arr == [vals |-> Ramp(seed, Prod(shape)), shape |-> shape, dtype |-> dtype]
                h == Len(host) + 1
            IN /\ host' = Append(host, arr)
               /\ tensors' = Append(tensors, TensorOf(HostRef(h), arr))
               /\ last' = Call("construct", 0, 0, <<>>, "none",
                               ReturnTensor(Len(tensors) + 1), <<>>)
               /\ UNCHANGED dev

\* What the three assertions of the module raise.
InvalidDeviceError == "AssertionError: Wrong Device!!"
PrecisionError == "AssertionError: Only single precision is supported i.e float32"
TypeMismatchError == "AssertionError: Tensor is required"

\* The two assertions that open Tensor.device.
NameRecognized(name) == StartsWith(name, STR_cpu) \/ StartsWith(name, STR_gpu)

SinglePrecision(t) == t.dtype = "float32"

\* The same two assertions, the other way round.
DeviceAssertionsDtypeFirst(t, name) ==
    IF ~SinglePrecision(t) THEN PrecisionError
    ELSE IF ~NameRecognized(name) THEN InvalidDeviceError
    ELSE "none"

\* What the assertions of Tensor.device raise, in the order they run
\* ("none": both pass).
DeviceAssertions(t, name) ==
    IF ~NameRecognized(name) THEN InvalidDeviceError
    ELSE IF ~SinglePrecision(t) THEN PrecisionError
    ELSE "none"

\* A placement test that also re-places a tensor under a new name.
NeedsPlacementOrRename(t, name) == t.state # "DEVICE" \/ t.device_name # name

\* The test that guards the placement block of Tensor.device.
NeedsPlacement(t, name) == t.state # "DEVICE"

\* The two assignments of Tensor.device that precede the allocation.
MarkPlaced(t, name) == [t EXCEPT !.state = "DEVICE", !.device_name = name]

\* A copy that stops one element short.
MemcpyHtoDShort(buf, arr) ==
    [buf EXCEPT !.vals = [i \in 1..Len(buf.vals) |->
                            IF i < Len(arr.vals) THEN arr.vals[i] ELSE buf.vals[i]]]

\* cuda.memcpy_htod(device_data, data): the bytes of the host array, written
\* at the start of the allocation.
MemcpyHtoD(buf, arr) ==
    [buf EXCEPT !.vals = [i \in 1..Len(buf.vals) |->
                            IF i <= Len(arr.vals) THEN arr.vals[i] ELSE buf.vals[i]]]

\* The driver may refuse an allocation (out of device memory).
AllocOutcomes == {"ok", "MemoryError"}

AllocCall(shape) == [DriverCall("mem_alloc") EXCEPT !.nbytes = Prod(shape) * FLOAT32_BYTES]

\* Tensor.device(name) on tensor i.
Device ==
    /\ Idle
    /\ \E i \in 1..Len(tensors), name \in Names :
      LET t == tensors[i] IN
      IF DeviceAssertions(t, name) # "none" THEN
          /\ last' = Call("device", i, 0, name, DeviceAssertions(t, name), NoReturn, <<>>)
          /\ UNCHANGED <<tensors, host, dev>>
      ELSE IF ~NeedsPlacement(t, name) THEN
          /\ last' = Call("device", i, 0, name, "none", ReturnTensor(i), <<>>)
          /\ UNCHANGED <<tensors, host, dev>>
      ELSE
          \E outcome \in AllocOutcomes, g \in Vals :
            LET t1 == MarkPlaced(t, name)
                d == Len(dev) + 1
                buf == AllocDeviceMemory(t.shape, g)
                htod == [DriverCall("memcpy_htod") EXCEPT !.ret = DevRef(d), !.lhs = t.data]
            IN
            IF outcome = "MemoryError" THEN
                \* mem_alloc raises: the two assignments above stay
                /\ tensors' = [tensors EXCEPT ![i] = t1]
                /\ last' = Call("device", i, 0, name, "MemoryError", NoReturn,
                                <<AllocCall(t.shape)>>)
                /\ UNCHANGED <<host, dev>>
            ELSE IF t.data.kind # "host" THEN
                \* memcpy_htod needs a host buffer as its source: TypeError
                \* (the allocation, held by a local only, is released)
                /\ tensors' = [tensors EXCEPT ![i] = t1]
                /\ dev' = dev
                /\ last' = Call("device", i, 0, name, "TypeError", NoReturn,
                                <<AllocCall(t.shape), htod>>)
                /\ UNCHANGED host
            ELSE
                /\ dev' = Append(dev, [MemcpyHtoD(buf, host[t.data.id])
                                         EXCEPT !.written_by = htod])
                /\ tensors' = [tensors EXCEPT ![i] =
                                 [t1 EXCEPT !.shape = host[t.data.id].shape,
                                            !.dtype = host[t.data.id].dtype,
                                            !.data = DevRef(d)]]
                /\ last' = Call("device", i, 0, name, "none", ReturnTensor(i),
                                <<AllocCall(t.shape), htod>>)
                /\ UNCHANGED host

\* cuda.memcpy_dtoh(dest, src): fills the whole host array from the start
\* of the allocation; cells past the allocation's end keep what they held.
MemcpyDtoH(arr, buf) ==
    [arr EXCEPT !.vals = [i \in 1..Len(arr.vals) |->
                            IF i <= Len(buf.vals) THEN buf.vals[i] ELSE arr.vals[i]]]

\* The host array Tensor.cpu builds from a tensor whose _data is a
\* DeviceAllocation: np.empty(self.shape, float32), filled by memcpy_dtoh.
CpuArray(t, g) ==
    MemcpyDtoH([vals |-> Garbage(g, Prod(t.shape)), shape |-> t.shape, dtype |-> "float32"],
               dev[t.data.id])

\* A cpu() that issues the copy and returns without waiting for the device.
CpuDriverCallsNoSync(t) == <<[DriverCall("memcpy_dtoh") EXCEPT !.lhs = t.data]>>

\* The driver calls of a Tensor.cpu that returns, in the order it issues
\* them: memcpy_dtoh, then Context.synchronize.
CpuDriverCalls(t) ==
    <<[DriverCall("memcpy_dtoh") EXCEPT !.lhs = t.data], DriverCall("synchronize")>>

\* A cpu() that wraps the receiver's own buffer instead of the host copy.
CpuReturnOwnBuffer(t, ref, arr) == TensorOf(t.data, dev[t.data.id])

\* The object Tensor.cpu returns: Tensor(_host_out_arry), the host array arr
\* being referenced by ref.
CpuReturn(t, ref, arr) == TensorOf(ref, arr)

\* Tensor.cpu() on tensor i.
Cpu ==
    /\ Idle
    /\ \E i \in 1..Len(tensors), g \in Vals :
      LET t == tensors[i]
          dtoh == [DriverCall("memcpy_dtoh") EXCEPT !.lhs = t.data]
      IN
      IF t.data.kind # "dev" THEN
          \* memcpy_dtoh needs a device pointer as its source: TypeError
          /\ last' = Call("cpu", i, 0, <<>>, "TypeError", NoReturn, <<dtoh>>)
          /\ UNCHANGED <<tensors, host, dev>>
      ELSE
          /\ Len(tensors) < MaxTensors
          /\ host' = Append(host, CpuArray(t, g))
          /\ tensors' = Append(tensors, CpuReturn(t, HostRef(Len(host) + 1), CpuArray(t, g)))
          /\ last' = Call("cpu", i, 0, <<>>, "none", ReturnTensor(Len(tensors) + 1),
                          CpuDriverCalls(t))
          /\ UNCHANGED dev

\* The assignment that opens Tensor.detach.
MarkDetached(t) == [t EXCEPT !.state = "DETACH"]

\* Tensor.detach() on tensor i: Tensor(self.data) wraps the same buffer.
Detach ==
    \E i \in 1..Len(tensors) :
      /\ Idle
      /\ Len(tensors) < MaxInputs
      /\ tensors' = Append([tensors EXCEPT ![i] = MarkDetached(tensors[i])],
                           TensorOf(tensors[i].data, Object(tensors[i].data)))
      /\ last' = Call("detach", i, 0, <<>>, "none", ReturnTensor(Len(tensors) + 1), <<>>)
      /\ UNCHANGED <<host, dev>>

\* The local _cuda_device of Tensor._device before any assignment.
Unbound == <<>>

\* Tensor._device: the label `where` reports. The local _cuda_device is
\* assigned for DEVICE and for HOST only.
DeviceLabel(t) ==
    CASE t.state = "DEVICE" -> STR_gpu
      [] t.state = "HOST" -> STR_cpu
      [] OTHER -> Unbound

\* repr(t) on tensor i: Tensor.__repr__ formats shape, data, dtype and
\* self.where; returning the unbound local raises UnboundLocalError.
Repr ==
    /\ Idle
    /\ \E i \in 1..Len(tensors) :
         LET label == DeviceLabel(tensors[i]) IN
         /\ last' = IF label = Unbound
                    THEN Call("repr", i, 0, <<>>, "UnboundLocalError", NoReturn, <<>>)
                    ELSE Call("repr", i, 0, <<>>, "none", ReturnStr(label), <<>>)
         /\ UNCHANGED <<tensors, host, dev>>

(* ----------------------------- arithmetic ------------------------------ *)

\* The operator symbols add, sub and mul pass to Tensor.arithmetic.
OpSymbol(method) ==
    CASE method = "add" -> "+"
      [] method = "sub" -> "-"
      [] method = "mul" -> "*"

Methods == {"add", "sub", "mul"}

\* A dispatch on the gpu slot, which no method ever sets.
DeviceDispatchOnGpuSlot(t) == t.gpu

\* The test that opens Tensor.arithmetic: the device path is taken when it
\* holds.
DeviceDispatch(t) == t.state = "DEVICE"

\* numpy's result type for a binary operator on two arrays.
PromoteTypes(d1, d2) == IF d1 = d2 THEN d1 ELSE "float64"

\* The host path of Tensor.arithmetic: the expression it returns, whatever
\* the operator symbol.
HostArithmetic(operation, a, b) ==
    [i \in 1..Len(a.vals) |-> a.vals[i] * b.vals[i]]

\* A rounding-up division: the least number of blocks that covers a.
IdivCeil(a, b) == (a + b - 1) \div b

\* Tensor._idiv
Idiv(a, b) == (a \div b) + 1

\* A count of all the elements of the shape.
LaunchCountTotal(shape) == Prod(shape)

\* The extent Tensor.arithmetic passes to the kernel as its count.
LaunchCount(shape) == MaxOf(shape)

\* An in-place result: the returned tensor wraps the receiver's buffer.
ResultTensorInPlace(t, ref, out) ==
    [TensorOf(t.data, Object(t.data)) EXCEPT !.dtype = t.dtype, !.shape = t.shape]

\* The tensor the device path returns: Tensor(ret), then dtype and shape
\* stamped from the receiver t.
ResultTensor(t, ref, out) ==
    [TensorOf(ref, out) EXCEPT !.dtype = t.dtype, !.shape = t.shape]

\* The elementwise operator a kernel program is compiled for.
ApplyOp(operation, x, y) ==
    CASE operation = "+" -> x + y
      [] operation = "-" -> x - y
      [] operation = "*" -> x * y

\* The kernel device_arithmetic(result, lhs, rhs, count) of the program
\* arithmetic(operation), run by `threads` threads: thread i writes
\* result[i] when i is below count.
DeviceArithmetic(operation, result, lhs, rhs, count, threads) ==
    [i \in 1..Len(result) |->
        IF i <= count /\ i <= threads
        THEN ApplyOp(operation, lhs[i], rhs[i])
        ELSE result[i]]

\* What the kernel reads through a buffer operand: the allocation's cells
\* when the operand is a DeviceAllocation; anything (u) when it is not a
\* device pointer.
OperandCells(ref, u, n) ==
    IF ref.kind = "dev" THEN dev[ref.id].vals ELSE Garbage(u, n)

\* Tensor.add / sub / mul on tensor i with argument j (0: an argument that
\* is not a Tensor, such as a list).
Arithmetic ==
    /\ Idle
    /\ \E i \in 1..Len(tensors), j \in 0..Len(tensors), method \in Methods :
      LET t == tensors[i]
          operation == OpSymbol(method)
      IN
      IF ~DeviceDispatch(t) THEN
          IF j = 0 THEN
              \* tensor.data on an object without that attribute
              /\ last' = Call(method, i, j, <<>>, "AttributeError", NoReturn, <<>>)
              /\ UNCHANGED <<tensors, host, dev>>
          ELSE IF t.data.kind = "host" /\ tensors[j].data.kind = "host" THEN
              /\ last' = Call(method, i, j, <<>>, "none",
                              ReturnArray(HostArithmetic(operation, host[t.data.id],
                                                         host[tensors[j].data.id]),
                                          host[t.data.id].shape,
                                          PromoteTypes(host[t.data.id].dtype,
                                                       host[tensors[j].data.id].dtype)),
                              <<>>)
              /\ UNCHANGED <<tensors, host, dev>>
          ELSE
              \* numpy cannot multiply with a DeviceAllocation
              /\ last' = Call(method, i, j, <<>>, "TypeError", NoReturn, <<>>)
              /\ UNCHANGED <<tensors, host, dev>>
      ELSE IF j = 0 THEN
          /\ last' = Call(method, i, j, <<>>, TypeMismatchError, NoReturn, <<>>)
          /\ UNCHANGED <<tensors, host, dev>>
      ELSE
          \E outcome \in AllocOutcomes, g \in Vals, u \in Vals :
            IF outcome = "MemoryError" THEN
                /\ last' = Call(method, i, j, <<>>, "MemoryError", NoReturn,
                                <<AllocCall(t.shape)>>)
                /\ UNCHANGED <<tensors, host, dev>>
            ELSE
                /\ Len(tensors) < MaxTensors
                /\ LET d == Len(dev) + 1
                       ret == AllocDeviceMemory(t.shape, g)
                       N == LaunchCount(t.shape)
                       grid == Idiv(N, BLOCKSIZE)
                       lhs == OperandCells(t.data, u, Prod(t.shape))
                       rhs == OperandCells(tensors[j].data, u, Prod(t.shape))
                       out == [ret EXCEPT !.vals =
                                 DeviceArithmetic(operation, ret.vals, lhs, rhs, N,
                                                  grid * BLOCKSIZE)]
                       launch == [DriverCall("launch") EXCEPT
                                    !.op = operation, !.ret = DevRef(d), !.lhs = t.data,
                                    !.rhs = tensors[j].data, !.n = N, !.grid = grid,
                                    !.block = BLOCKSIZE]
                   IN /\ dev' = Append(dev, [out EXCEPT !.written_by = launch])
                      /\ tensors' = Append(tensors, ResultTensor(t, DevRef(d), out))
                      /\ last' = Call(method, i, j, <<>>, "none",
                                      ReturnTensor(Len(tensors) + 1),
                                      <<AllocCall(t.shape), launch>>)
                      /\ UNCHANGED host

Init ==
    /\ tensors = <<>>
    /\ host = <<>>
    /\ dev = <<>>
    /\ last = NoCall

Next ==
    \/ Construct
    \/ Device
    \/ Cpu
    \/ Detach
    \/ Arithmetic
    \/ Repr
    \/ Resume

Spec == Init /\ [][Next]_vars

(* --------------------------- launch geometry --------------------------- *)

\* A launch about to be configured for a count of N elements.
GeometryInit ==
    /\ tensors = <<>>
    /\ host = <<>>
    /\ dev = <<>>
    /\ \E N \in 0..MaxCount :
         last = [NoCall EXCEPT !.calls = <<[DriverCall("launch") EXCEPT !.n = N]>>]

\* The geometry Tensor.arithmetic computes for the launch: blockDim is
\* (BLOCKSIZE, 1, 1) and gridDim is (_idiv(N, BLOCKSIZE), 1, 1).
LaunchGeometry ==
    /\ last.op = "none"
    /\ Len(last.calls) = 1
    /\ last' = [last EXCEPT !.op = "geometry",
                            !.calls = <<[last.calls[1] EXCEPT
                                           !.grid = Idiv(last.calls[1].n, BLOCKSIZE),
                                           !.block = BLOCKSIZE]>>]
    /\ UNCHANGED <<tensors, host, dev>>

GeometryNext == LaunchGeometry

GeometrySpec == GeometryInit /\ [][GeometryNext]_vars

(* ------------------------------- claims -------------------------------- *)

\* The receiver and the argument of the last call, as they were before it.
SelfBefore == last.pre[last.self]
OtherBefore == last.pre[last.other]

\* The last call was add, sub or mul with a Tensor argument.
BinaryCall == last.op \in Methods /\ last.other # 0

\* The values a returned object holds: a Tensor's buffer, or the array itself.
ReturnedVals ==
    IF last.ret.kind = "Tensor" THEN Object(tensors[last.ret.id].data).vals
    ELSE last.ret.vals

\* a[i] op b[i] at every position, for the operands of the last call.
Elementwise(a, b) ==
    [i \in 1..Len(a) |-> ApplyOp(OpSymbol(last.op), a[i], b[i])]

\* C1: on the host path, add / sub / mul of two HOST tensors of the same
\* shape holds the elementwise sum / difference / product.
C1_HostPathElementwise ==
    (/\ BinaryCall
     /\ SelfBefore.state = "HOST"
     /\ OtherBefore.state = "HOST"
     /\ SelfBefore.shape = OtherBefore.shape)
    => /\ last.err = "none"
       /\ ReturnedVals = Elementwise(host[SelfBefore.data.id].vals,
                                     host[OtherBefore.data.id].vals)

\* C2: on the device path, add / sub / mul of two DEVICE tensors of the same
\* shape, followed by cpu(), yields a[i] op b[i] at every one of the
\* product(shape) positions.
C2_DevicePathElementwise ==
    (/\ BinaryCall
     /\ last.err = "none"
     /\ SelfBefore.state = "DEVICE" /\ SelfBefore.data.kind = "dev"
     /\ OtherBefore.state = "DEVICE" /\ OtherBefore.data.kind = "dev"
     /\ SelfBefore.shape = OtherBefore.shape)
    => /\ last.ret.kind = "Tensor"
       /\ \A g \in Vals :
            /\ Len(CpuArray(tensors[last.ret.id], g).vals) = Prod(SelfBefore.shape)
            /\ CpuArray(tensors[last.ret.id], g).vals
                 = Elementwise(dev[SelfBefore.data.id].vals, dev[OtherBefore.data.id].vals)

\* C3: add / sub / mul return a new Tensor whose shape and dtype are the
\* receiver's and whose residency state is the receiver's, for a HOST
\* receiver as for a DEVICE one.
C3_ReturnsTensorOfSameResidency ==
    (BinaryCall /\ last.err = "none")
    => /\ last.ret.kind = "Tensor"
       /\ last.ret.id \notin DOMAIN last.pre
       /\ tensors[last.ret.id].shape = SelfBefore.shape
       /\ tensors[last.ret.id].dtype = SelfBefore.dtype
       /\ tensors[last.ret.id].state = SelfBefore.state

\* The last call was a cpu() that returned, on a tensor whose allocation was
\* filled by the host-to-device copy of a placement.
CpuOfPlaced ==
    /\ last.op = "cpu"
    /\ last.err = "none"
    /\ dev[SelfBefore.data.id].written_by.fn = "memcpy_htod"

\* The host array a placement copied into the allocation of the receiver.
PlacedFrom == host[dev[SelfBefore.data.id].written_by.lhs.id]

\* C4: round trip: t.device(name).cpu() is a HOST tensor whose data equals
\* t's original host data element for element and whose shape is t's.
C4_RoundTrip ==
    CpuOfPlaced
    => /\ last.ret.kind = "Tensor"
       /\ tensors[last.ret.id].state = "HOST"
       /\ tensors[last.ret.id].data.kind = "host"
       /\ host[tensors[last.ret.id].data.id].vals = PlacedFrom.vals
       /\ tensors[last.ret.id].shape = PlacedFrom.shape

C4_Witness ==
    /\ CpuOfPlaced
    /\ SelfBefore.state = "DEVICE"
    /\ SelfBefore.shape = <<MaxDim, MaxDim>>
    /\ PlacedFrom.vals[1] # PlacedFrom.vals[2]

\* C5: device(name) on a tensor already in DEVICE state issues no allocation
\* and no copy and leaves every field of every tensor as it was.
C5_PlacementIdempotent ==
    (last.op = "device" /\ SelfBefore.state = "DEVICE")
    => /\ last.calls = <<>>
       /\ tensors = last.pre

C5_Witness ==
    /\ last.op = "device"
    /\ SelfBefore.state = "DEVICE"
    /\ SelfBefore.data.kind = "dev"
    /\ last.err = "none"
    /\ last.name # SelfBefore.device_name
    /\ last.ret = ReturnTensor(last.self)

\* C6: residency invariant: a Tensor has state DEVICE if and only if its
\* data is a device-buffer handle.
C6_ResidencyInvariant ==
    \A i \in DOMAIN tensors :
        (tensors[i].state = "DEVICE") <=> (tensors[i].data.kind = "dev")

\* C7: when the allocation fails during device(name) on a HOST tensor, the
\* error propagates and the tensor is not mutated.
C7_AllocationFailureLeavesTensor ==
    (last.op = "device" /\ SelfBefore.state = "HOST" /\ last.err = "MemoryError")
    => tensors = last.pre

\* C8 (as stated): device(name) fails with PrecisionError on a tensor whose
\* dtype is not float32, and with InvalidDeviceError for a name that starts
\* with neither "cpu" nor "gpu"; in both cases nothing is issued or changed.
C8_PlacementRejections ==
    /\ (last.op = "device" /\ SelfBefore.dtype # "float32")
       => (last.err = PrecisionError /\ last.calls = <<>> /\ tensors = last.pre)
    /\ (last.op = "device" /\ ~(StartsWith(last.name, STR_cpu) \/ StartsWith(last.name, STR_gpu)))
       => (last.err = InvalidDeviceError /\ last.calls = <<>> /\ tensors = last.pre)

\* C8 (amended): device(name) fails with InvalidDeviceError for a name that
\* starts with neither "cpu" nor "gpu", whatever the dtype, and with
\* PrecisionError for a recognized name on a tensor whose dtype is not
\* float32; in both cases nothing is issued or changed.
C8_PlacementRejectionsNameFirst ==
    /\ (/\ last.op = "device"
        /\ SelfBefore.dtype # "float32"
        /\ (StartsWith(last.name, STR_cpu) \/ StartsWith(last.name, STR_gpu)))
       => (last.err = PrecisionError /\ last.calls = <<>> /\ tensors = last.pre)
    /\ (last.op = "device" /\ ~(StartsWith(last.name, STR_cpu) \/ StartsWith(last.name, STR_gpu)))
       => (last.err = InvalidDeviceError /\ last.calls = <<>> /\ tensors = last.pre)

C8_Witness ==
    /\ last.op = "device"
    /\ SelfBefore.dtype # "float32"
    /\ SelfBefore.state = "DETACH"
    /\ last.name = STR_tpu
    /\ last.err = InvalidDeviceError

\* C9: with the receiver in DEVICE state, add / sub / mul with an argument
\* that is not a Tensor fails with TypeMismatchError before any buffer is
\* allocated or any kernel launched.
C9_NonTensorRejected ==
    (last.op \in Methods /\ SelfBefore.state = "DEVICE" /\ last.other = 0)
    => /\ last.err = TypeMismatchError
       /\ last.calls = <<>>
       /\ tensors = last.pre

C9_Witness ==
    /\ last.op = "sub"
    /\ SelfBefore.state = "DEVICE"
    /\ SelfBefore.data.kind = "dev"
    /\ last.other = 0
    /\ last.err = TypeMismatchError

\* C10: device(name) on a tensor already in DEVICE state, with a name other
\* than the one it was placed with, raises NotImplementedError.
C10_ReplacementRaises ==
    (/\ last.op = "device"
     /\ SelfBefore.state = "DEVICE"
     /\ SelfBefore.data.kind = "dev"
     /\ last.name # SelfBefore.device_name
     /\ DeviceAssertions(SelfBefore, last.name) = "none")
    => last.err = "NotImplementedError"


\* The Tensor objects that existed before the last call are as they were.
TensorsUntouched ==
    /\ Len(tensors) >= Len(last.pre)
    /\ SubSeq(tensors, 1, Len(last.pre)) = last.pre

\* C11: cpu() on a DEVICE tensor returns a new Tensor in HOST state holding
\* a freshly allocated host buffer, and leaves the receiver (state, data
\* handle, shape, dtype, device_name) as it was.
C11_CpuLeavesReceiver ==
    (last.op = "cpu" /\ SelfBefore.state = "DEVICE")
    => /\ tensors[last.self] = SelfBefore
       /\ TensorsUntouched
       /\ last.err = "none"
          => /\ last.ret.kind = "Tensor"
             /\ last.ret.id \notin DOMAIN last.pre
             /\ tensors[last.ret.id].state = "HOST"
             /\ tensors[last.ret.id].data.kind = "host"
             /\ \A k \in DOMAIN last.pre : last.pre[k].data # tensors[last.ret.id].data

C11_Witness ==
    /\ last.op = "cpu"
    /\ SelfBefore.state = "DEVICE"
    /\ last.err = "none"
    /\ tensors[last.self].state = "DEVICE"
    /\ tensors[last.ret.id].state = "HOST"
    /\ Len(host) > 1

\* The driver calls of the last call that are a synchronize.
Synchronizes == {k \in DOMAIN last.calls : last.calls[k].fn = "synchronize"}

\* C12: synchronize is issued only by cpu(): a cpu() that returns has issued
\* the device-to-host copy and then synchronize, in that order, before it
\* returns; device() and add / sub / mul (and every other call) issue none.
C12_OnlyCpuSynchronizes ==
    /\ (last.op = "cpu" /\ last.err = "none")
       => /\ Len(last.calls) = 2
          /\ last.calls[1].fn = "memcpy_dtoh"
          /\ last.calls[1].lhs = SelfBefore.data
          /\ last.calls[2].fn = "synchronize"
    /\ last.op # "cpu" => Synchronizes = {}

\* A cpu() of the result of a device arithmetic call has returned.
C12_Witness ==
    /\ last.op = "cpu"
    /\ last.err = "none"
    /\ dev[SelfBefore.data.id].written_by.fn = "launch"
    /\ Synchronizes = {2}

\* C13: with a fixed block of 256 threads, a count N that is a multiple of
\* 256 gets N / 256 + 1 blocks and any other count gets floor(N / 256) + 1
\* blocks; in both cases the launched threads, grid * 256, exceed N, for
\* every N >= 0.
C13_GridCoversCount ==
    last.op = "geometry"
    => LET N == last.calls[1].n
           grid == last.calls[1].grid
           block == last.calls[1].block
       IN /\ block = 256
          /\ (N % 256 = 0) => (grid - 1) * 256 = N
          /\ (N % 256 # 0) => ((grid - 1) * 256 < N /\ N < grid * 256)
          /\ grid * block > N

\* A geometry has been computed for a count that is a positive multiple of
\* the block size.
C13_Witness ==
    /\ last.op = "geometry"
    /\ last.calls[1].n = 512
    /\ last.calls[1].grid = 3

\* C14: exclusive ownership: no two distinct Tensor objects hold the same
\* buffer; the tensors cpu() and detach() return are built from a copy.
C14_ExclusiveOwnership ==
    \A i, j \in DOMAIN tensors :
        i # j => tensors[i].data # tensors[j].data

\* C15: detach() on a tensor in any state returns a new tensor marked
\* DETACH and sets the receiver's own state to DETACH.
C15_DetachMarksBoth ==
    last.op = "detach"
    => /\ last.ret.kind = "Tensor"
       /\ last.ret.id \notin DOMAIN last.pre
       /\ tensors[last.ret.id].state = "DETACH"
       /\ tensors[last.self].state = "DETACH"

\* C16: an add / sub / mul call leaves both operands as they were (state,
\* data handle, shape, dtype, device_name, and the contents of every
\* buffer that existed), and a tensor it returns is a new object on a
\* buffer neither operand holds.
C16_OperandsUntouched ==
    [][(last'.op \in Methods)
       => /\ Len(tensors') >= Len(tensors)
          /\ \A k \in DOMAIN tensors : tensors'[k] = tensors[k]
          /\ Len(host') >= Len(host)
          /\ \A k \in DOMAIN host : host'[k] = host[k]
          /\ Len(dev') >= Len(dev)
          /\ \A k \in DOMAIN dev : dev'[k] = dev[k]
          /\ (last'.ret.kind = "Tensor")
             => /\ last'.ret.id \notin DOMAIN tensors
                /\ \A k \in DOMAIN tensors :
                     tensors[k].data # tensors'[last'.ret.id].data]_vars

\* A device-path call on two distinct tensors has returned its result.
C16_Witness ==
    /\ last.op \in Methods
    /\ last.err = "none"
    /\ last.other # 0
    /\ last.self # last.other
    /\ last.ret.kind = "Tensor"
    /\ Len(tensors) = Len(last.pre) + 1

\* C17: every tensor in DEVICE state, whether device() or an arithmetic
\* call produced it, holds a device-buffer handle whose allocated size in
\* bytes is 4 * product(shape).
C17_DeviceBufferSize ==
    \A i \in DOMAIN tensors :
        (tensors[i].state = "DEVICE")
        => /\ tensors[i].data.kind = "dev"
           /\ dev[tensors[i].data.id].nbytes = 4 * Prod(tensors[i].shape)

\* C18: on the device path an add / sub / mul call issues exactly one
\* allocation, of the receiver's shape, followed by exactly one kernel
\* launch, and nothing is retried (a failed allocation is followed by no
\* launch); the kernel is the one keyed by the operator symbol and its
\* operands are (result buffer, receiver's data, other's data, N) with N
\* the largest extent of the receiver's shape.
C18_OneAllocationOneLaunch ==
    (last.op \in Methods /\ last.other # 0 /\ SelfBefore.state = "DEVICE")
    => /\ Len(last.calls) >= 1
       /\ last.calls[1].fn = "mem_alloc"
       /\ last.calls[1].nbytes = 4 * Prod(SelfBefore.shape)
       /\ (last.err # "none") => Len(last.calls) = 1
       /\ (last.err = "none")
          => /\ Len(last.calls) = 2
             /\ LET launch == last.calls[2]
                    shape == SelfBefore.shape
                IN /\ launch.fn = "launch"
                   /\ (last.op = "add") => launch.op = "+"
                   /\ (last.op = "sub") => launch.op = "-"
                   /\ (last.op = "mul") => launch.op = "*"
                   /\ launch.ret = tensors[last.ret.id].data
                   /\ \A k \in DOMAIN last.pre : last.pre[k].data # launch.ret
                   /\ launch.lhs = SelfBefore.data
                   /\ launch.rhs = OtherBefore.data
                   /\ \A k \in DOMAIN shape : shape[k] <= launch.n
                   /\ \E k \in DOMAIN shape : shape[k] = launch.n

\* A sub on a two-dimensional DEVICE tensor has launched its kernel.
C18_Witness ==
    /\ last.op = "sub"
    /\ last.other # 0
    /\ SelfBefore.state = "DEVICE"
    /\ last.err = "none"
    /\ SelfBefore.shape = <<MaxDim, MaxDim>>
    /\ last.calls[2].op = "-"
    /\ last.calls[2].n = MaxDim

\* C19: repr(t) (through where) completes without error in every reachable
\* state, changes no field, and reports "cpu" when the state is HOST and
\* "gpu" when it is DEVICE.
C19_ReprDefined ==
    last.op = "repr"
    => /\ last.err = "none"
       /\ tensors = last.pre
       /\ (SelfBefore.state = "HOST") => last.ret.text = STR_cpu
       /\ (SelfBefore.state = "DEVICE") => last.ret.text = STR_gpu

\* C20: every kernel launch receives device-buffer handles for its three
\* buffer operands (result, lhs, rhs); stated for the case the claim
\* singles out, a receiver that holds a device buffer, whatever the other
\* operand holds.
C20_LaunchOperandsOnDevice ==
    (last.op \in Methods /\ SelfBefore.data.kind = "dev")
    => \A k \in DOMAIN last.calls :
         (last.calls[k].fn = "launch")
         => /\ last.calls[k].ret.kind = "dev"
            /\ last.calls[k].lhs.kind = "dev"
            /\ last.calls[k].rhs.kind = "dev"
====
